---------------------------- MODULE Spec2Model ----------------------------
(***************************************************************************)
(* Products CRUD service: pydantic request schemas (app/schema),           *)
(* SQLAlchemy models with the featured-flag rule (app/models) and the      *)
(* Flask endpoints that validate, resolve references, merge and commit     *)
(* (app/endpoints).                                                        *)
(*                                                                         *)
(* Python values that may be absent or None are tagged records:            *)
(*   Unset  - the key is not in the JSON body / not in the dict            *)
(*   Null   - the key is present with value None                           *)
(*   Val(v) - the key is present with value v                              *)
(* Ratings are integer-valued floats, datetimes are seconds on one axis.   *)
(***************************************************************************)
EXTENDS Integers, Sequences, FiniteSets, TLC

VARIABLES
    products,     \* persisted rows of table products: id -> row
    nextId,       \* next primary key the store assigns
    brands,       \* ids of the persisted brands
    categories,   \* ids of the persisted categories
    now,          \* datetime.utcnow(), in seconds
    pc,           \* "idle": no request in progress; "done": a response was produced
    request,      \* the request handled last
    response,     \* its response
    prev,         \* products as persisted when that request arrived
    session       \* db.session: objects added or changed and not yet committed

vars ==
    <<products, nextId, brands, categories, now, pc, request, response, prev,
      session>>

----------------------------------------------------------------------------
(* Bounds of the model *)

MaxId == 1        \* products created in one behaviour
MaxNow == 1       \* seconds the clock advances

(* Program constants *)

FEATURED_THRESHOLD == 8
MINIMAL_EXPIRATION == 30 * 86400 - 5    \* timedelta(days=30) - timedelta(seconds=5)
NAME_MAX_LENGTH == 50
RATING_MIN == 0
RATING_MAX == 10
CATEGORIES_MIN_ITEMS == 1
CATEGORIES_MAX_ITEMS == 5

----------------------------------------------------------------------------
(* Optional / nullable values *)

Unset == [k |-> "unset"]
Null == [k |-> "null"]
Val(v) == [k |-> "val", v |-> v]

IsUnset(f) == f.k = "unset"
IsNull(f) == f.k = "null"
IsVal(f) == f.k = "val"

Fields ==
    <<"name", "rating", "featured", "receipt_date", "expiration_date",
      "brand", "categories", "items_in_stock">>

Required == {"name", "rating", "brand", "categories", "items_in_stock"}

----------------------------------------------------------------------------
(* Validation layer: app/schema/products.py *)

Error(loc, type) == [loc |-> loc, type |-> type]

\* A date of the JSON body is a string: an RFC 1123 date with zone "-0000"
\* (what format_datetime gives for a naive datetime), one with a named or
\* numeric zone such as "GMT", or a string that is no RFC 1123 date.
DateString(fmt, t) == [fmt |-> fmt, t |-> t]

\* parsedate_to_datetime: naive for "-0000", timezone-aware otherwise; it
\* raises on a string it cannot parse, which pydantic reports for the field.
parse_rfc_1123_datetime(date) ==
    IF date.fmt = "bad"
    THEN [ok |-> FALSE, dt |-> [t |-> 0, aware |-> FALSE]]
    ELSE [ok |-> TRUE, dt |-> [t |-> date.t, aware |-> date.fmt = "aware"]]

\* A validator that forgets the current time.
validate_expiration_date_no_today(dt, today) ==
    IF dt.aware
    THEN FALSE
    ELSE ~(dt.t < MINIMAL_EXPIRATION)

\* validator("expiration_date"): TRUE when the validator returns, FALSE when
\* it raises. Subtracting utcnow() (naive) from an aware datetime raises
\* TypeError; a naive one is compared with MINIMAL_EXPIRATION.
validate_expiration_date(dt, today) ==
    IF dt.aware
    THEN FALSE
    ELSE ~(dt.t - today < MINIMAL_EXPIRATION)

\* constr(max_length=50), confloat(ge=0, le=10), conset(min 1, max 5),
\* PositiveInt: the type of the error one value gives, "" when it is valid.
ConstraintError(field, v, today) ==
    CASE field = "name" ->
            IF Len(v) > NAME_MAX_LENGTH THEN "value_error.any_str.max_length" ELSE ""
      [] field = "rating" ->
            IF v < RATING_MIN THEN "value_error.number.not_ge"
            ELSE IF v > RATING_MAX THEN "value_error.number.not_le" ELSE ""
      [] field = "categories" ->
            IF Cardinality(v) < CATEGORIES_MIN_ITEMS THEN "value_error.set.min_items"
            ELSE IF Cardinality(v) > CATEGORIES_MAX_ITEMS THEN "value_error.set.max_items"
            ELSE ""
      [] field = "items_in_stock" ->
            IF v > 0 THEN "" ELSE "value_error.number.not_gt"
      [] field = "receipt_date" ->
            IF parse_rfc_1123_datetime(v).ok THEN "" ELSE "type_error"
      [] field = "expiration_date" ->
            IF ~parse_rfc_1123_datetime(v).ok THEN "type_error"
            ELSE IF validate_expiration_date(parse_rfc_1123_datetime(v).dt, today)
                 THEN "" ELSE "value_error"
      [] OTHER -> ""

\* The errors pydantic collects for one field: none or one.
\* schema is "create" (ProductCreateSchema) or "update" (ProductUpdateSchema).
FieldErrors(schema, field, f, today) ==
    IF IsUnset(f)
    THEN IF schema = "create" /\ field \in Required
         THEN <<Error(field, "value_error.missing")>> ELSE <<>>
    ELSE IF IsNull(f)
    THEN IF schema = "create" /\ field \in Required
         THEN <<Error(field, "type_error.none.not_allowed")>> ELSE <<>>
    ELSE IF ConstraintError(field, f.v, today) # ""
         THEN <<Error(field, ConstraintError(field, f.v, today))>> ELSE <<>>

RECURSIVE CollectErrors(_, _, _, _)
CollectErrors(schema, payload, today, i) ==
    IF i > Len(Fields) THEN <<>>
    ELSE FieldErrors(schema, Fields[i], payload[Fields[i]], today)
         \o CollectErrors(schema, payload, today, i + 1)

\* A validation that stops at the first error.
ValidationErrors_first(schema, payload, today) ==
    IF CollectErrors(schema, payload, today, 1) = <<>> THEN <<>>
    ELSE <<Head(CollectErrors(schema, payload, today, 1))>>

\* BaseModel.__init__: every field is validated and all errors are reported,
\* in field order.
ValidationErrors(schema, payload, today) == CollectErrors(schema, payload, today, 1)

\* The validated model: date strings become datetimes, the rest is kept.
ParsedDate(f) == IF IsVal(f) THEN Val(parse_rfc_1123_datetime(f.v).dt) ELSE f

ProductSchema(payload) ==
    [payload EXCEPT !.receipt_date = ParsedDate(@),
                    !.expiration_date = ParsedDate(@)]

----------------------------------------------------------------------------
(* Models: app/models/products.py, app/models/exceptions.py *)

Resource(kind, id) == [kind |-> kind, id |-> id]

Ok(obj) == [exc |-> "", obj |-> obj]
Raise(exc, obj) == [exc |-> exc, obj |-> obj]

\* The attributes of class Product a request can name.
ProductAttributes ==
    {"name", "rating", "featured", "receipt_date", "expiration_date",
     "brand", "categories", "items_in_stock"}

hasattr(self, key) == key \in DOMAIN self

\* A rule that recomputes the flag from the rating when featured is None.
Product_on_update_resets(self, data) ==
    IF IsUnset(data.featured) THEN Raise("KeyError", self)
    ELSE IF ~IsNull(data.featured) THEN Ok(self)
    ELSE IF IsUnset(data.rating) THEN Raise("KeyError", self)
    ELSE IF IsNull(data.rating) THEN Raise("TypeError", self)
    ELSE Ok([self EXCEPT !.featured = Val(data.rating.v > FEATURED_THRESHOLD)])

\* A rule that promotes whether or not featured was given.
Product_on_update_always(self, data) ==
    IF IsUnset(data.featured) \/ IsUnset(data.rating) THEN Raise("KeyError", self)
    ELSE IF IsNull(data.rating) THEN Raise("TypeError", self)
    ELSE IF data.rating.v > FEATURED_THRESHOLD
         THEN Ok([self EXCEPT !.featured = Val(TRUE)])
         ELSE Ok(self)

\* Product.on_update: data["featured"] and data["rating"] raise KeyError when
\* the dict lacks the key; `and` evaluates data["rating"] only when
\* data["featured"] is None; None > 8 raises TypeError.
Product_on_update(self, data) ==
    IF IsUnset(data.featured) THEN Raise("KeyError", self)
    ELSE IF ~IsNull(data.featured) THEN Ok(self)
    ELSE IF IsUnset(data.rating) THEN Raise("KeyError", self)
    ELSE IF IsNull(data.rating) THEN Raise("TypeError", self)
    ELSE IF data.rating.v > FEATURED_THRESHOLD
         THEN Ok([self EXCEPT !.featured = Val(TRUE)])
         ELSE Ok(self)

\* Product(**data): the attributes named in data, None for the others.
Product_init(data) ==
    [a \in ProductAttributes |-> IF IsUnset(data[a]) THEN Null ELSE data[a]]

\* Product.create
Product_create(data) == Product_on_update(Product_init(data), data)

\* Product.get
Product_get(rows, product_id) ==
    IF product_id \in DOMAIN rows
    THEN [exc |-> "", resources |-> {}, obj |-> rows[product_id]]
    ELSE [exc |-> "NotFound", resources |-> {Resource("Product", product_id)},
          obj |-> Null]

\* The loop of Product.update: one key of data.
MergeKey(self, key, value) ==
    IF IsUnset(value) THEN self                          \* not a key of data
    ELSE IF key = "featured" /\ IsNull(value) THEN self
    ELSE IF ~hasattr(self, key) THEN self
    ELSE [self EXCEPT ![key] = value]

RECURSIVE MergeFrom(_, _, _)
MergeFrom(self, data, i) ==
    IF i > Len(Fields) THEN self
    ELSE MergeFrom(MergeKey(self, Fields[i], data[Fields[i]]), data, i + 1)

\* Product.update: setattr(self, "categories", None) raises TypeError (a
\* collection attribute takes no None) after the keys before it were set;
\* then on_update. A raise leaves the object as changed so far.
Product_update(self, data) ==
    IF IsNull(data.categories)
    THEN Raise("TypeError",
               MergeFrom(self, [data EXCEPT !.categories = Unset,
                                            !.items_in_stock = Unset], 1))
    ELSE Product_on_update(MergeFrom(self, data, 1), data)

\* Brand.get
Brand_get(stored, brand_id) ==
    IF brand_id \in stored
    THEN [exc |-> "", resources |-> {}, obj |-> brand_id]
    ELSE [exc |-> "NotFound", resources |-> {Resource("Brand", brand_id)},
          obj |-> brand_id]

\* A lookup that names only one of the missing ids.
Category_get_all_first(stored, ids) ==
    LET found == {c \in stored : c \in ids}
    IN IF Cardinality(found) # Cardinality(ids)
       THEN [exc |-> "NotFound",
             resources |-> {Resource("Category", CHOOSE i \in ids \ found : TRUE)},
             obj |-> {}]
       ELSE [exc |-> "", resources |-> {}, obj |-> found]

\* Category.get_all: the stored categories whose id is in ids; NotFound
\* naming ids.difference(db_ids) when their number differs from len(ids).
Category_get_all(stored, ids) ==
    LET found == {c \in stored : c \in ids}
        db_ids == found
    IN IF Cardinality(found) # Cardinality(ids)
       THEN [exc |-> "NotFound",
             resources |-> {Resource("Category", i) : i \in ids \ db_ids},
             obj |-> {}]
       ELSE [exc |-> "", resources |-> {}, obj |-> found]

\* Columns declared nullable=False that a request can set.
NotNullColumns == {"name", "rating", "brand", "items_in_stock"}

\* A commit against a table without its NOT NULL constraints.
session_commit_unchecked(obj) ==
    Ok([obj EXCEPT !.featured = IF IsNull(@) THEN Val(FALSE) ELSE @])

\* db.session.commit(): the flush fails with IntegrityError when a NOT NULL
\* column holds None; a None featured is left to the column default (False).
session_commit(obj) ==
    IF \E c \in NotNullColumns : IsNull(obj[c])
    THEN Raise("IntegrityError", obj)
    ELSE Ok([obj EXCEPT !.featured = IF IsNull(@) THEN Val(FALSE) ELSE @])

----------------------------------------------------------------------------
(* Endpoints: app/endpoints/products.py *)

\* A resolver that looks up both references and reports all that are missing.
build_product_args_aggregate(data, storedBrands, storedCategories) ==
    LET brand == IF IsVal(data.brand)
                 THEN Brand_get(storedBrands, data.brand.v)
                 ELSE [exc |-> "", resources |-> {}, obj |-> 0]
        cats == IF IsVal(data.categories)
                THEN Category_get_all(storedCategories, data.categories.v)
                ELSE [exc |-> "", resources |-> {}, obj |-> {}]
    IN IF brand.exc # "" \/ cats.exc # ""
       THEN [exc |-> "NotFound",
             resources |-> brand.resources \cup cats.resources, args |-> data]
       ELSE [exc |-> "", resources |-> {},
             args |-> [data EXCEPT
                         !.brand = IF IsVal(@) THEN Val(brand.obj) ELSE @,
                         !.categories = IF IsVal(@) THEN Val(cats.obj) ELSE @]]

\* build_product_args: the dict of the fields set in the body, with brand
\* and categories replaced by the stored records when they are not None.
\* Brand.get runs first and its NotFound ends the call.
build_product_args(data, storedBrands, storedCategories) ==
    LET brand == IF IsVal(data.brand)
                 THEN Brand_get(storedBrands, data.brand.v)
                 ELSE [exc |-> "", resources |-> {}, obj |-> 0]
        cats == IF IsVal(data.categories)
                THEN Category_get_all(storedCategories, data.categories.v)
                ELSE [exc |-> "", resources |-> {}, obj |-> {}]
    IN IF brand.exc # ""
       THEN [exc |-> brand.exc, resources |-> brand.resources, args |-> data]
       ELSE IF cats.exc # ""
       THEN [exc |-> cats.exc, resources |-> cats.resources, args |-> data]
       ELSE [exc |-> "", resources |-> {},
             args |-> [data EXCEPT
                         !.brand = IF IsVal(@) THEN Val(brand.obj) ELSE @,
                         !.categories = IF IsVal(@) THEN Val(cats.obj) ELSE @]]

\* Responses. The errorhandlers turn a pydantic ValidationError into 400 with
\* the error list and an InvalidUsage into its code (404 for NotFound) with
\* its resources; any other exception is the framework's 500.
NoResponse == [status |-> 0, errors |-> <<>>, resources |-> {}, exc |-> "", id |-> 0]
Success(status, id) == [NoResponse EXCEPT !.status = status, !.id = id]
handle_validation_error(errors) ==
    [NoResponse EXCEPT !.status = 400, !.errors = errors, !.exc = "ValidationError"]
handle_invalid_usage(resources) ==
    [NoResponse EXCEPT !.status = 404, !.resources = resources, !.exc = "NotFound"]
InternalServerError(exc) == [NoResponse EXCEPT !.status = 500, !.exc = exc]

NoPayload == [f \in ProductAttributes |-> Unset]
NoRequest == [op |-> "none", product_id |-> 0, payload |-> NoPayload]

\* db.session with nothing in it.
EmptySession == [pending |-> <<>>, dirty |-> << >>]

\* An object given to the session: a new one (session.add, or the cascade
\* from the stored brand it was constructed with) or a loaded one whose
\* attributes were set.
AddPending(sess, obj) == [sess EXCEPT !.pending = Append(@, obj)]
MarkDirty(sess, id, obj) ==
    [sess EXCEPT !.dirty = [i \in DOMAIN @ \cup {id} |-> IF i = id THEN obj ELSE @[i]]]

\* The row a committed new object becomes: the next primary key and the
\* default of created_at.
InsertedRow(obj, id, today) ==
    [a \in ProductAttributes \cup {"id", "created_at"} |->
        IF a = "id" THEN id
        ELSE IF a = "created_at" THEN today
        ELSE obj[a]]

\* db.session.commit(): everything the session holds is written in one
\* transaction, or nothing is when one object fails.
Flush(rows, firstId, sess, today) ==
    IF \/ \E id \in DOMAIN sess.dirty : session_commit(sess.dirty[id]).exc # ""
       \/ \E i \in 1..Len(sess.pending) : session_commit(sess.pending[i]).exc # ""
    THEN [exc |-> "IntegrityError", products |-> rows, nextId |-> firstId]
    ELSE [exc |-> "",
          products |->
              [id \in DOMAIN rows \cup {firstId + i - 1 : i \in 1..Len(sess.pending)} |->
                  IF id \in DOMAIN sess.dirty
                  THEN session_commit(sess.dirty[id]).obj
                  ELSE IF id \in DOMAIN rows THEN rows[id]
                  ELSE InsertedRow(session_commit(sess.pending[id - firstId + 1]).obj,
                                   id, today)],
          nextId |-> firstId + Len(sess.pending)]

\* What a handler leaves behind: the response, the persisted rows and the
\* session. Failed: an exception before the session was touched. Aborted:
\* an exception after it, nothing committed.
Failed(resp) ==
    [response |-> resp, products |-> products, nextId |-> nextId,
     session |-> session]
Aborted(resp, sess) ==
    [response |-> resp, products |-> products, nextId |-> nextId,
     session |-> sess]
Committed(resp, flushed) ==
    [response |-> resp, products |-> flushed.products,
     nextId |-> flushed.nextId, session |-> EmptySession]

\* A create that commits the object although the featured rule raised.
CreateOutcome_commits_on_error(payload) ==
    LET errors == ValidationErrors("create", payload, now)
        built == build_product_args(ProductSchema(payload), brands, categories)
        product == Product_create(built.args)
        sess == AddPending(session, product.obj)
        flushed == Flush(products, nextId, sess, now)
    IN IF errors # <<>> THEN Failed(handle_validation_error(errors))
       ELSE IF built.exc # "" THEN Failed(handle_invalid_usage(built.resources))
       ELSE IF flushed.exc # ""
            THEN Aborted(InternalServerError(flushed.exc), sess)
       ELSE IF product.exc # ""
            THEN Committed(InternalServerError(product.exc), flushed)
       ELSE Committed(Success(201, nextId), flushed)

\* POST /products. The new object is in the session from its construction
\* on (it is given a stored brand), so a raise in on_update leaves it there.
CreateOutcome(payload) ==
    LET errors == ValidationErrors("create", payload, now)
        built == build_product_args(ProductSchema(payload), brands, categories)
        product == Product_create(built.args)
        sess == AddPending(session, product.obj)
        flushed == Flush(products, nextId, sess, now)
    IN IF errors # <<>> THEN Failed(handle_validation_error(errors))
       ELSE IF built.exc # "" THEN Failed(handle_invalid_usage(built.resources))
       ELSE IF product.exc # ""
            THEN Aborted(InternalServerError(product.exc), sess)
       ELSE IF flushed.exc # ""
            THEN Aborted(InternalServerError(flushed.exc), sess)
       ELSE Committed(Success(201, nextId), flushed)

\* An update that commits the merged fields although the rule raised.
UpdateOutcome_commits_on_error(product_id, payload) ==
    LET errors == ValidationErrors("update", payload, now)
        built == build_product_args(ProductSchema(payload), brands, categories)
        got == Product_get(products, product_id)
        product == Product_update(got.obj, built.args)
        sess == MarkDirty(session, product_id, product.obj)
        flushed == Flush(products, nextId, sess, now)
    IN IF errors # <<>> THEN Failed(handle_validation_error(errors))
       ELSE IF built.exc # "" THEN Failed(handle_invalid_usage(built.resources))
       ELSE IF got.exc # "" THEN Failed(handle_invalid_usage(got.resources))
       ELSE IF flushed.exc # ""
            THEN Aborted(InternalServerError(flushed.exc), sess)
       ELSE IF product.exc # ""
            THEN Committed(InternalServerError(product.exc), flushed)
       ELSE Committed(Success(200, product_id), flushed)

\* PATCH /products/<product_id>
UpdateOutcome(product_id, payload) ==
    LET errors == ValidationErrors("update", payload, now)
        built == build_product_args(ProductSchema(payload), brands, categories)
        got == Product_get(products, product_id)
        product == Product_update(got.obj, built.args)
        sess == MarkDirty(session, product_id, product.obj)
        flushed == Flush(products, nextId, sess, now)
    IN IF errors # <<>> THEN Failed(handle_validation_error(errors))
       ELSE IF built.exc # "" THEN Failed(handle_invalid_usage(built.resources))
       ELSE IF got.exc # "" THEN Failed(handle_invalid_usage(got.resources))
       ELSE IF product.exc # ""
            THEN Aborted(InternalServerError(product.exc), sess)
       ELSE IF flushed.exc # ""
            THEN Aborted(InternalServerError(flushed.exc), sess)
       ELSE Committed(Success(200, product_id), flushed)

\* DELETE /products/<product_id>
DeleteOutcome(product_id) ==
    LET got == Product_get(products, product_id)
        flushed == Flush(products, nextId, session, now)
    IN IF got.exc # "" THEN Failed(handle_invalid_usage(got.resources))
       ELSE IF flushed.exc # ""
            THEN Aborted(InternalServerError(flushed.exc), session)
       ELSE Committed(Success(200, product_id),
                [flushed EXCEPT
                   !.products = [i \in DOMAIN @ \ {product_id} |-> @[i]]])

Handle(req, out) ==
    /\ pc = "idle"
    /\ pc' = "done"
    /\ request' = req
    /\ response' = out.response
    /\ prev' = products
    /\ products' = out.products
    /\ nextId' = out.nextId
    /\ session' = out.session
    /\ UNCHANGED <<brands, categories, now>>

create_product(payload) ==
    /\ nextId <= MaxId
    /\ Handle([op |-> "create", product_id |-> 0, payload |-> payload],
              CreateOutcome(payload))

update_product(product_id, payload) ==
    Handle([op |-> "update", product_id |-> product_id, payload |-> payload],
           UpdateOutcome(product_id, payload))

delete_product(product_id) ==
    Handle([op |-> "delete", product_id |-> product_id, payload |-> NoPayload],
           DeleteOutcome(product_id))

\* The request is over: its response was sent and its session removed,
\* which rolls back whatever it had not committed.
teardown_request ==
    /\ pc = "done"
    /\ pc' = "idle"
    /\ request' = NoRequest
    /\ response' = NoResponse
    /\ prev' = products
    /\ session' = EmptySession
    /\ UNCHANGED <<products, nextId, brands, categories, now>>

\* Time passes between requests.
Tick ==
    /\ pc = "idle"
    /\ now < MaxNow
    /\ now' = now + 1
    /\ UNCHANGED <<products, nextId, brands, categories, pc, request, response,
                   prev, session>>

----------------------------------------------------------------------------
(* Requests the clients send *)

LongName == "sssssssssssssssssssssssssssssssssssssssssssssssssss"    \* "s" * 51

\* The body of test_create_product, without its expiration date and with
\* featured given, so that the create succeeds.
FullPayload ==
    [name |-> Val("test"), rating |-> Val(8), featured |-> Val(FALSE),
     receipt_date |-> Val(DateString("naive", 0)), expiration_date |-> Unset,
     brand |-> Val(1), categories |-> Val({1, 2}), items_in_stock |-> Val(1)]

Bases == {FullPayload, NoPayload}

FeaturedValues == {Unset, Null, Val(TRUE), Val(FALSE)}

\* Bodies that break the shape constraints, one field or several at once
\* (test_acceptance_criteria_1 and _2 are among them).
ShapePayloads ==
    {[name |-> n, rating |-> r, featured |-> Unset, receipt_date |-> Unset,
      expiration_date |-> Unset, brand |-> b, categories |-> c,
      items_in_stock |-> i] :
        n \in {Unset, Val("test"), Val(LongName)},
        r \in {Unset, Val(8), Val(11)},
        b \in {Unset, Val(1)},
        c \in {Unset, Val({1, 2}), Val(1..6)},
        i \in {Unset, Val(1), Val(-1)}}
    \cup {[FullPayload EXCEPT !.rating = Val(-1)],
          [FullPayload EXCEPT !.categories = Val({})],
          [FullPayload EXCEPT !.items_in_stock = Val(0)],
          [FullPayload EXCEPT !.name = Null],
          [FullPayload EXCEPT !.brand = Null, !.categories = Null]}

\* Bodies with dates: at the expiration boundary (accepted at time 0, one
\* second short at time 1), timezone-aware, and no RFC 1123 date.
DatePayloadsOf(base) ==
    {[base EXCEPT !.expiration_date = e] :
        e \in {Unset, Null,
               Val(DateString("naive", MINIMAL_EXPIRATION)),
               Val(DateString("aware", MINIMAL_EXPIRATION + MaxNow)),
               Val(DateString("bad", 0))}}
    \cup {[base EXCEPT !.receipt_date = Val(DateString("bad", 0))]}
    \cup {[base EXCEPT !.expiration_date = Val(DateString("naive", 0)),
                       !.name = Val(LongName)]}

DatePayloads == UNION {DatePayloadsOf(base) : base \in Bases}

\* Bodies around the featured rule.
FeaturedPayloadsOf(base) ==
    {[base EXCEPT !.featured = f, !.rating = r, !.name = n] :
        f \in FeaturedValues,
        r \in {Unset, Null, Val(8), Val(9)},
        n \in {base.name, Val("test2")}}

FeaturedPayloads == UNION {FeaturedPayloadsOf(base) : base \in Bases}

\* Bodies that reference brands and categories, stored or not.
ReferencePayloads ==
    {[base EXCEPT !.brand = b, !.categories = c] :
        base \in Bases,
        b \in {Unset, Null, Val(1), Val(2)},
        c \in {Unset, Null, Val({1, 2}), Val({1, 3}), Val({3, 4})}}

\* Bodies that give None for fields the store wants.
NullPayloads ==
    {[NoPayload EXCEPT !.featured = f, !.name = n, !.rating = r,
                       !.items_in_stock = i] :
        f \in {Val(TRUE), Val(FALSE)},
        n \in {Unset, Null},
        r \in {Unset, Null},
        i \in {Unset, Null}}

Payloads ==
    ShapePayloads \cup DatePayloads \cup FeaturedPayloads
        \cup ReferencePayloads \cup NullPayloads

ProductIds == 1..MaxId

Init ==
    /\ products = << >>
    /\ nextId = 1
    /\ brands = {1}
    /\ categories = {1, 2}
    /\ now = 0
    /\ pc = "idle"
    /\ request = NoRequest
    /\ response = NoResponse
    /\ prev = << >>
    /\ session = EmptySession

Next ==
    \/ pc = "idle" /\ \E payload \in Payloads : create_product(payload)
    \/ pc = "idle" /\ \E product_id \in ProductIds, payload \in Payloads :
          update_product(product_id, payload)
    \/ pc = "idle" /\ \E product_id \in ProductIds : delete_product(product_id)
    \/ teardown_request
    \/ Tick

Spec == Init /\ [][Next]_vars

----------------------------------------------------------------------------
(* Vocabulary of the properties. In a "done" state now, brands and         *)
(* categories are what the handler saw, prev is the table before it ran.   *)

Done == pc = "done"
IsWrite == request.op \in {"create", "update"}
Body == request.payload
Schema == request.op
Succeeded == response.status \in {200, 201}
Stored == products[response.id]
Before == prev[request.product_id]

ErrorsAt(loc) == {i \in 1..Len(response.errors) : response.errors[i].loc = loc}

\* The body passes validation: no error list would be produced for it.
Valid == ValidationErrors(Schema, Body, now) = <<>>

\* Every reference of the body resolves and the product to update exists.
Resolves ==
    /\ IsVal(Body.brand) => Body.brand.v \in brands
    /\ IsVal(Body.categories) => Body.categories.v \subseteq categories
    /\ request.op = "update" => request.product_id \in DOMAIN prev

\* No field of the body is null.
NoNulls == \A a \in ProductAttributes : ~IsNull(Body[a])

----------------------------------------------------------------------------
\* C1 (as claimed): a create or update whose body gives a rating r and no
\* featured succeeds; if r > 8 the stored product is featured afterwards, and
\* a create with r <= 8 stores featured = false.
C1_FeaturedUnsetRule ==
    (Done /\ IsWrite /\ Valid /\ Resolves /\ NoNulls
        /\ IsVal(Body.rating) /\ IsUnset(Body.featured))
    => /\ Succeeded
       /\ Body.rating.v > 8 => Stored.featured = Val(TRUE)
       /\ (request.op = "create" /\ Body.rating.v <= 8) => Stored.featured = Val(FALSE)

\* C2 (as claimed): once a stored product is featured, an update that gives
\* no featured and a rating at or below 8 succeeds and leaves it featured.
C2_StickyFeatured ==
    (Done /\ request.op = "update" /\ Valid /\ Resolves /\ NoNulls
        /\ Before.featured = Val(TRUE)
        /\ IsUnset(Body.featured) /\ IsVal(Body.rating) /\ Body.rating.v <= 8)
    => /\ Succeeded
       /\ Stored.featured = Val(TRUE)

\* C3 (as claimed): no accepted update, whatever its body, takes featured
\* from true to false.
C3_NeverUnfeatured ==
    (Done /\ request.op = "update" /\ Succeeded /\ Before.featured = Val(TRUE))
    => Stored.featured = Val(TRUE)

\* C3 (amended): an accepted update takes featured from true to false exactly
\* when its body gives featured = false; with featured absent, null or true
\* the flag stays true.
C3_UnfeaturedOnlyExplicitly ==
    (Done /\ request.op = "update" /\ Succeeded /\ Before.featured = Val(TRUE))
    => IF Body.featured = Val(FALSE)
       THEN Stored.featured = Val(FALSE)
       ELSE Stored.featured = Val(TRUE)

\* C3 witness: a featured product was updated with featured null and a
\* rating not above the threshold, and the update was accepted.
C3_Witness ==
    /\ Done /\ request.op = "update" /\ Succeeded
    /\ Before.featured = Val(TRUE)
    /\ IsNull(Body.featured)
    /\ Body.rating = Val(8)

\* C4 (as claimed): an accepted update changes only the fields its body
\* gives, and an update whose body is {name: X} is accepted, sets name to X
\* and leaves id, brand, categories, items_in_stock, receipt_date,
\* expiration_date, created_at and featured as they were.
C4_PartialUpdateFrame ==
    /\ (Done /\ request.op = "update" /\ Succeeded)
       => /\ Stored.id = Before.id
          /\ Stored.created_at = Before.created_at
          /\ \A a \in ProductAttributes :
                IsUnset(Body[a]) => Stored[a] = Before[a]
    /\ (Done /\ request.op = "update" /\ request.product_id \in DOMAIN prev
          /\ \E x \in {"test", "test2"} : Body = [NoPayload EXCEPT !.name = Val(x)])
       => /\ Succeeded
          /\ Stored.name = Body.name
          /\ \A a \in {"id", "brand", "categories", "items_in_stock",
                        "receipt_date", "expiration_date", "created_at",
                        "featured"} : Stored[a] = Before[a]

\* C5: every persisted product has a rating in [0, 10], at least one item in
\* stock, one stored brand and between 1 and 5 stored categories, whatever
\* creates, updates (also with null fields) and deletes came before.
C5_PersistedInvariants ==
    \A id \in DOMAIN products :
        LET row == products[id]
        IN /\ IsVal(row.rating) /\ row.rating.v >= 0 /\ row.rating.v <= 10
           /\ IsVal(row.items_in_stock) /\ row.items_in_stock.v >= 1
           /\ IsVal(row.brand) /\ row.brand.v \in brands
           /\ IsVal(row.categories)
           /\ row.categories.v \subseteq categories
           /\ Cardinality(row.categories.v) \in 1..5

\* C5 witness: an update of a persisted product gave null for a field the
\* table declares NOT NULL and got as far as the commit.
C5_Witness ==
    /\ Done /\ request.op = "update"
    /\ request.product_id \in DOMAIN products
    /\ IsNull(Body.rating) /\ IsNull(Body.items_in_stock)
    /\ response.exc = "IntegrityError"

\* C6: the fields of a create body the claim lists, and when one of them
\* breaks its constraint: required and absent (or null), a name longer than
\* 50, a rating outside [0, 10], fewer than 1 item, not 1 to 5 categories.
ShapeFields == {"name", "rating", "brand", "categories", "items_in_stock"}

Violates(a) ==
    \/ ~IsVal(Body[a])
    \/ a = "name" /\ Len(Body.name.v) > 50
    \/ a = "rating" /\ (Body.rating.v < 0 \/ Body.rating.v > 10)
    \/ a = "items_in_stock" /\ Body.items_in_stock.v < 1
    \/ a = "categories" /\ Cardinality(Body.categories.v) \notin 1..5

\* C6: a create whose body breaks a shape constraint is answered 400 with
\* exactly one error per field that breaks its constraint, none for the
\* fields that do not, however many fields are broken, and creates nothing.
C6_AllViolationsReported ==
    (Done /\ request.op = "create" /\ \E a \in ShapeFields : Violates(a))
    => /\ response.status = 400
       /\ \A a \in ShapeFields :
             Cardinality(ErrorsAt(a)) = IF Violates(a) THEN 1 ELSE 0
       /\ Len(response.errors) =
             Cardinality({a \in ShapeFields : Violates(a)})
               + Cardinality(ErrorsAt("expiration_date"))
               + Cardinality(ErrorsAt("receipt_date"))
       /\ products = prev

\* C6 witness: the body of test_acceptance_criteria_1 (long name, rating 11,
\* -1 items, no brand, no categories) got its five errors.
C6_Witness ==
    /\ Done /\ request.op = "create"
    /\ Body.name = Val(LongName) /\ Body.rating = Val(11)
    /\ Body.items_in_stock = Val(-1)
    /\ IsUnset(Body.brand) /\ IsUnset(Body.categories)
    /\ response.status = 400
    /\ Len(response.errors) = 5

\* The errors of the response that are not about the expiration date.
RECURSIVE Without(_, _)
Without(errors, loc) ==
    IF errors = <<>> THEN <<>>
    ELSE IF Head(errors).loc = loc THEN Without(Tail(errors), loc)
    ELSE <<Head(errors)>> \o Without(Tail(errors), loc)

\* C7: on create and on update, a body whose expiration date e is an RFC
\* 1123 date passes only if e - now >= 30 days - 5 seconds; otherwise the
\* answer is 400 with exactly one error at expiration_date (the only error
\* when the rest of the body is valid) and the table is unchanged. A body
\* without expiration_date gets no error at expiration_date.
C7_ExpirationRule ==
    (Done /\ IsWrite)
    => /\ (IsVal(Body.expiration_date) /\ Body.expiration_date.v.fmt # "bad"
             /\ Body.expiration_date.v.t - now < 30 * 86400 - 5)
          => /\ response.status = 400
             /\ Cardinality(ErrorsAt("expiration_date")) = 1
             /\ Without(response.errors, "expiration_date") =
                   ValidationErrors(Schema,
                       [Body EXCEPT !.expiration_date = Unset], now)
             /\ products = prev
       /\ (IsVal(Body.expiration_date) /\ response.status # 400)
          => Body.expiration_date.v.t - now >= 30 * 86400 - 5
       /\ IsUnset(Body.expiration_date) => ErrorsAt("expiration_date") = {}

\* C7 witness: an update with a valid body whose expiration date is one
\* second short of 30 days - 5 seconds was answered 400 with one error.
C7_Witness ==
    /\ Done /\ request.op = "update"
    /\ IsVal(Body.expiration_date)
    /\ Body.expiration_date.v.fmt = "naive"
    /\ Body.expiration_date.v.t - now = 30 * 86400 - 5 - 1
    /\ response.status = 400
    /\ Len(response.errors) = 1
    /\ response.errors[1].loc = "expiration_date"

\* C8: when a valid body with a resolvable brand names categories, get_all
\* passes exactly when every id is stored, and the product then holds
\* exactly those categories; otherwise the answer is 404 naming every id
\* that is not stored and no id that is.
C8_GetAllAllOrNothing ==
    (Done /\ IsWrite /\ Valid /\ IsVal(Body.categories)
        /\ (IsVal(Body.brand) => Body.brand.v \in brands))
    => IF \A i \in Body.categories.v : i \in categories
       THEN /\ \A r \in response.resources : r.kind # "Category"
            /\ Succeeded => Stored.categories = Body.categories
       ELSE /\ response.status = 404
            /\ response.resources =
                  {Resource("Category", i) :
                      i \in {j \in Body.categories.v : j \notin categories}}
            /\ products = prev

\* C8 witness: categories {1, 3} were asked for with only 1 stored, and the
\* answer was 404.
C8_Witness ==
    /\ Done /\ IsWrite
    /\ Body.categories = Val({1, 3})
    /\ 1 \in categories /\ 3 \notin categories
    /\ response.status = 404
    /\ response.resources # {}

\* C9 (as claimed): a create or update that gives featured explicitly and a
\* rating above 8 ends with the product stored as featured.
C9_PromotionDespiteExplicit ==
    (Done /\ IsWrite /\ Succeeded
        /\ IsVal(Body.featured) /\ IsVal(Body.rating) /\ Body.rating.v > 8)
    => Stored.featured = Val(TRUE)

\* C9 (amended): a featured given as true or false is stored as given and
\* the automatic check is skipped, also when the rating is above 8; the
\* check runs when featured is given as null, and then a rating above 8
\* stores featured = true and it never turns a featured product unfeatured.
C9_ExplicitFeaturedWins ==
    (Done /\ IsWrite /\ Succeeded)
    => /\ IsVal(Body.featured) => Stored.featured = Body.featured
       /\ (IsNull(Body.featured) /\ IsVal(Body.rating) /\ Body.rating.v > 8)
          => Stored.featured = Val(TRUE)
       /\ (IsNull(Body.featured) /\ request.op = "update"
             /\ Before.featured = Val(TRUE)) => Stored.featured = Val(TRUE)

\* C9 witness: featured = false was given with rating 9 and stored.
C9_Witness ==
    /\ Done /\ IsWrite /\ Succeeded
    /\ Body.featured = Val(FALSE)
    /\ Body.rating = Val(9)
    /\ Stored.featured = Val(FALSE)

\* The references of the body that are not stored.
MissingBrand ==
    IF IsVal(Body.brand) /\ Body.brand.v \notin brands
    THEN {Resource("Brand", Body.brand.v)} ELSE {}
MissingCategories ==
    IF IsVal(Body.categories)
    THEN {Resource("Category", i) : i \in {j \in Body.categories.v : j \notin categories}}
    ELSE {}

\* C10 (as claimed): a valid body that names a brand that is not stored and
\* categories that are not stored is answered 404 with one entry per
\* missing resource, the brand and every category.
C10_NotFoundAggregated ==
    (Done /\ IsWrite /\ Valid /\ MissingBrand # {} /\ MissingCategories # {})
    => /\ response.status = 404
       /\ response.resources = MissingBrand \cup MissingCategories

\* C10 (amended): such a body is answered 404 naming the missing brand only;
\* the missing categories are named, all of them, when the brand is stored
\* or not given.
C10_NotFoundBrandFirst ==
    (Done /\ IsWrite /\ Valid)
    => /\ MissingBrand # {}
          => response.status = 404 /\ response.resources = MissingBrand
       /\ (MissingBrand = {} /\ MissingCategories # {})
          => response.status = 404 /\ response.resources = MissingCategories

\* C10 witness: brand 2 and categories {3, 4}, none stored, were asked for
\* and the answer was 404.
C10_Witness ==
    /\ Done /\ IsWrite /\ Valid
    /\ Body.brand = Val(2) /\ Body.categories = Val({3, 4})
    /\ MissingBrand # {} /\ MissingCategories # {}
    /\ response.status = 404

=============================================================================
